---- MODULE Spec2Model ----
(***************************************************************************)
(* TimeRate-Tracker: the workbook assembly engine of automate_excel.py and *)
(* work_log.py.  A run reads a date range, data files and a rate, clones   *)
(* the template sheet once per day, fills each clone with the day's        *)
(* records and rebuilds the "Total" sheet from the recorded row ranges.    *)
(*                                                                         *)
(* Conventions of the model                                                *)
(*   - a datetime.date is its ordinal (days since Epoch); strftime turns   *)
(*     it into the triple <<mm, dd, yyyy>>, whose component-wise order is  *)
(*     the order of the zero-padded MM-DD-YYYY string;                     *)
(*   - a string is a sequence of one-character strings where the code      *)
(*     looks inside it (the Complete flag), one token otherwise;           *)
(*   - a cell value is a record [t, s, a]: tag, text, integer arguments;   *)
(*   - a worksheet holds its cells sparsely, as openpyxl's _cells does;    *)
(*     a cell is a MergedCell iff it is a non-anchor member of one of the  *)
(*     sheet's merged ranges, in loaded and in copied sheets alike.        *)
(***************************************************************************)
EXTENDS Integers, Sequences, FiniteSets, TLC

\* ------------------------------------------------------------------ bounds
\* Number of calendar days the model's dates range over (from Epoch on).
NumDays == 4
\* Number of file paths the user may enter at the file prompt.
MaxFiles == 2

\* ------------------------------------------------------- program constants
TEMPLATE_STYLE_ROW == 7
\* start_row=7 of every clear_sheet_data / fill_daily_sheet call of main
DATA_START_ROW == 7
\* row 6: the header row written by fill_daily_sheet / apply_consistent_layout
HEADER_ROW == 6
\* row_idx = 4: the first summary row of the Total sheet
TOTAL_FIRST_ROW == 4
\* the header row of the Total sheet (B3:E3)
TOTAL_HEADER_ROW == 3
\* number of data columns A..G
NUM_COLS == 7

\* --------------------------------------------------------------- utilities
MaxOf(S) == CHOOSE x \in S : \A y \in S : y <= x

MinOf(S) == CHOOSE x \in S : \A y \in S : x <= y

Range(f) == {f[i] : i \in DOMAIN f}

\* --------------------------------------------------------------- calendar
\* The first day of the model's calendar: 12-31-2023, so that the calendar
\* crosses a year boundary (lexicographic order differs from date order).
Epoch == <<12, 31, 2023>>

Days == 0 .. (NumDays - 1)

IsLeap(y) == (y % 4 = 0 /\ y % 100 # 0) \/ y % 400 = 0

DaysInMonth(m, y) ==
    IF m = 2 THEN (IF IsLeap(y) THEN 29 ELSE 28)
    ELSE IF m \in {4, 6, 9, 11} THEN 30 ELSE 31

\* current += datetime.timedelta(days=1), on the <<mm, dd, yyyy>> triple
NextYMD(t) ==
    IF t[2] < DaysInMonth(t[1], t[3]) THEN <<t[1], t[2] + 1, t[3]>>
    ELSE IF t[1] < 12 THEN <<t[1] + 1, 1, t[3]>>
    ELSE <<1, 1, t[3] + 1>>

RECURSIVE Strftime(_)
\* date.strftime("%m-%d-%Y"): the MM-DD-YYYY name of the date with ordinal o
Strftime(o) == IF o = 0 THEN Epoch ELSE NextYMD(Strftime(o - 1))

\* Lexicographic order of two MM-DD-YYYY strings (both zero padded, so the
\* string order is the order of the triples, month first).
NameLess(a, b) ==
    \/ a[1] < b[1]
    \/ a[1] = b[1] /\ a[2] < b[2]
    \/ a[1] = b[1] /\ a[2] = b[2] /\ a[3] < b[3]

\* What strptime / pd.to_datetime accept: a text naming a day of the calendar.
Parseable(name) == \E o \in Days : Strftime(o) = name

\* datetime.strptime(text, "%m-%d-%Y").date() for a parseable text
Strptime(name) == CHOOSE o \in Days : Strftime(o) = name

\* A text that is no date (strptime raises ValueError, to_datetime gives NaT).
BadDateText == <<13, 45, 2024>>

\* The empty answer to a prompt.
NoText == <<0, 0, 0>>

\* ------------------------------------------------------------ cell values
None == [t |-> "none", s |-> <<>>, a |-> <<>>]

Str(chars) == [t |-> "str", s |-> chars, a |-> <<>>]

Num(n) == [t |-> "num", s |-> <<>>, a |-> <<n>>]

\* pandas' NaN for a blank field
NaN == [t |-> "nan", s |-> <<>>, a |-> <<>>]

\* a date's MM-DD-YYYY string
NameStr(name) == [t |-> "name", s |-> <<>>, a |-> name]

\* work_log's "<start>_to_<end>" label
RangeStr(n1, n2) == [t |-> "range", s |-> <<>>, a |-> n1 \o n2]

\* f"=SUM('{sheet}'!C{first}:C{last}) + (SUM('{sheet}'!D{first}:D{last})/60)"
HourFormula(name, first, last) ==
    [t |-> "hours", s |-> <<"C", "D">>, a |-> name \o <<first, last>>]

\* Mutant of CostFormula: the cost always multiplies the cells of the first
\* summary row.
CostFormula_first_row(row) ==
    [t |-> "cost", s |-> <<"C", "D">>, a |-> <<TOTAL_FIRST_ROW, TOTAL_FIRST_ROW>>]

\* f"=C{row}*D{row}"
CostFormula(row) == [t |-> "cost", s |-> <<"C", "D">>, a |-> <<row, row>>]

\* f"=SUM(C7:C{last}) + (SUM(D7:D{last})/60)" of a daily sheet's C4
LocalHourFormula(last) ==
    [t |-> "localhours", s |-> <<"C", "D">>, a |-> <<DATA_START_ROW, last>>]

\* ------------------------------------------------------------ cell styles
NoStyle == [font |-> "default", rest |-> 0]

\* the hand-made style of the template's column c
TplStyle(c) == [font |-> "template", rest |-> c]

\* cell.has_style
HasStyle(st) == st # NoStyle

\* cell.font = Font(color="008000") / Font(color="FF0000"): the font is
\* replaced, the other style parts stay
WithFont(st, colour) == [st EXCEPT !.font = colour]

\* -------------------------------------------------------------- worksheets
\* A worksheet: title, sheet_state, _cells (sparse), merged_cells.ranges (a
\* set of <<min_row, min_col, max_row, max_col>>) and freeze_panes.
NewCell == [v |-> None, st |-> NoStyle]

HasCell(ws, r, c) == <<r, c>> \in DOMAIN ws.cells

\* ws.cell(row, column) read only
CellOf(ws, r, c) == IF HasCell(ws, r, c) THEN ws.cells[<<r, c>>] ELSE NewCell

ValueOf(ws, r, c) == CellOf(ws, r, c).v

StyleOf(ws, r, c) == CellOf(ws, r, c).st

InRange(rg, r, c) == rg[1] <= r /\ r <= rg[3] /\ rg[2] <= c /\ c <= rg[4]

\* isinstance(cell, MergedCell): a non-anchor member of a merged range
IsMergedCell(ws, r, c) ==
    \E rg \in ws.merged : InRange(rg, r, c) /\ <<r, c>> # <<rg[1], rg[2]>>

\* ws.max_row, ws.min_column, ws.max_column of the cells that exist
MaxRow(ws) == IF DOMAIN ws.cells = {} THEN 1 ELSE MaxOf({p[1] : p \in DOMAIN ws.cells})

MinCol(ws) == IF DOMAIN ws.cells = {} THEN 1 ELSE MinOf({p[2] : p \in DOMAIN ws.cells})

MaxCol(ws) == IF DOMAIN ws.cells = {} THEN 1 ELSE MaxOf({p[2] : p \in DOMAIN ws.cells})

\* The cells iter_rows(min_row=lo, max_row=ws.max_row) visits (and creates).
IterRows(ws, lo) == (lo .. MaxRow(ws)) \X (MinCol(ws) .. MaxCol(ws))

\* cell.value = v on an ordinary cell (creating it when absent)
SetValue(ws, r, c, v) ==
    [ws EXCEPT !.cells =
        [p \in (DOMAIN ws.cells) \cup {<<r, c>>} |->
            IF p = <<r, c>> THEN [v |-> v, st |-> StyleOf(ws, r, c)]
            ELSE ws.cells[p]]]

\* cell.<style part> = ... on a cell
SetStyle(ws, r, c, st) ==
    [ws EXCEPT !.cells =
        [p \in (DOMAIN ws.cells) \cup {<<r, c>>} |->
            IF p = <<r, c>> THEN [v |-> ValueOf(ws, r, c), st |-> st]
            ELSE ws.cells[p]]]

\* The cell safe_set_cell writes for address (r, c): the top-left cell of the
\* merged range holding a MergedCell, the cell itself otherwise.
WriteTarget(ws, r, c) ==
    IF IsMergedCell(ws, r, c)
    THEN LET rg == CHOOSE g \in ws.merged : InRange(g, r, c)
         IN  <<rg[1], rg[2]>>
    ELSE <<r, c>>

\* Mutant of safe_set_cell: the isinstance(cell, MergedCell) branch is
\* missing, the addressed cell is written whatever it is.
safe_set_cell_no_redirect(ws, r, c, v) == SetValue(ws, r, c, v)

\* safe_set_cell(ws, cell_ref, value)
safe_set_cell(ws, r, c, v) ==
    LET tgt == WriteTarget(ws, r, c) IN SetValue(ws, tgt[1], tgt[2], v)

\* ------------------------------------------------------------------ text
UpperLetters == <<"A","B","C","D","E","F","G","H","I","J","K","L","M",
                  "N","O","P","Q","R","S","T","U","V","W","X","Y","Z">>

LowerLetters == <<"a","b","c","d","e","f","g","h","i","j","k","l","m",
                  "n","o","p","q","r","s","t","u","v","w","x","y","z">>

LowerChar(ch) ==
    IF \E i \in DOMAIN UpperLetters : UpperLetters[i] = ch
    THEN LowerLetters[CHOOSE i \in DOMAIN UpperLetters : UpperLetters[i] = ch]
    ELSE ch

\* str.lower()
Lower(chars) == [i \in DOMAIN chars |-> LowerChar(chars[i])]

IsSpace(ch) == ch = " "

RECURSIVE LStrip(_)
LStrip(chars) ==
    IF chars # <<>> /\ IsSpace(Head(chars)) THEN LStrip(Tail(chars)) ELSE chars

RECURSIVE RStrip(_)
RStrip(chars) ==
    IF chars # <<>> /\ IsSpace(chars[Len(chars)])
    THEN RStrip(SubSeq(chars, 1, Len(chars) - 1)) ELSE chars

\* str.strip()
Strip(chars) == RStrip(LStrip(chars))

\* isinstance(val, str)
IsStr(v) == v.t = "str"

YES == <<"y", "e", "s">>

NO == <<"n", "o">>

\* Font(color="008000") and Font(color="FF0000")
GREEN == "008000"

RED == "FF0000"

\* The seven headers of row 6, in column order.
Headers == << Str(<<"Number">>), Str(<<"Daily Work Description">>), Str(<<"Hr">>),
              Str(<<"Min">>), Str(<<"Complete">>), Str(<<"Follow up">>),
              Str(<<"Supervisor Comments">>) >>

\* ------------------------------------------------------------- data frames
\* A data frame: whether it has a 'Date' column, and its rows in order.  A
\* row has the seven required fields (cell values) and its Date entry:
\*   [k |-> "raw", name]  the text read from the file
\*   [k |-> "date", o]    a datetime.date (after pd.to_datetime(...).dt.date)
\*   [k |-> "nat"]        NaT: the text was no date
\*   [k |-> "nan"]        no entry (the file had no Date column)
RawDate(name) == [k |-> "raw", name |-> name, o |-> 0]

DateVal(o) == [k |-> "date", name |-> NoText, o |-> o]

NaT == [k |-> "nat", name |-> NoText, o |-> 0]

NoDateEntry == [k |-> "nan", name |-> NoText, o |-> 0]

EmptyFrame == [has_date |-> FALSE, rows |-> <<>>]

\* pd.to_datetime(x, errors='coerce').dt.date on one entry
ToDate(e) ==
    IF e.k = "raw" /\ Parseable(e.name) THEN DateVal(Strptime(e.name))
    ELSE IF e.k = "date" THEN e
    ELSE NaT

\* df['Date'] = pd.to_datetime(df['Date'], errors='coerce').dt.date
ParseDates(df) ==
    [df EXCEPT !.rows = [i \in DOMAIN df.rows |->
                            [df.rows[i] EXCEPT !.Date = ToDate(df.rows[i].Date)]]]

\* entry == date_obj, as pandas compares element-wise: a text or a null is
\* never equal to a datetime.date
DateEq(e, date_obj) == e.k = "date" /\ e.o = date_obj

\* (entry >= start) & (entry <= end) on parsed entries; a null compares False
DateBetween(e, start, end) == e.k = "date" /\ start <= e.o /\ e.o <= end

\* df[df['Date'] == date_obj]
FilterEq(df, date_obj) ==
    LET Keep(r) == DateEq(r.Date, date_obj)
    IN  [df EXCEPT !.rows = SelectSeq(df.rows, Keep)]

\* df[(df['Date'] >= start) & (df['Date'] <= end)]
FilterBetween(df, start, end) ==
    LET Keep(r) == DateBetween(r.Date, start, end)
    IN  [df EXCEPT !.rows = SelectSeq(df.rows, Keep)]

\* pd.concat([a, b], ignore_index=True): the columns are united, the rows of
\* a frame without the Date column get no Date entry
Concat(a, b) == [has_date |-> a.has_date \/ b.has_date, rows |-> a.rows \o b.rows]

\* ------------------------------------------------------ sheet operations
\* Several "cell.value = v" in sequence: writes is a sequence of <<r, c, v>>.
RECURSIVE ApplyWrites(_, _)
ApplyWrites(ws, writes) ==
    IF writes = <<>> THEN ws
    ELSE LET w == Head(writes)
         IN  ApplyWrites(SetValue(ws, w[1], w[2], w[3]), Tail(writes))

\* Assigning .value of a MergedCell raises AttributeError (the attribute is
\* read-only): whether one of the writes hits a MergedCell.
HitsMergedCell(ws, writes) ==
    \E i \in DOMAIN writes : IsMergedCell(ws, writes[i][1], writes[i][2])

\* The cells of `visited` exist afterwards, the cells of `targets` hold None.
Blank(ws, visited, targets) ==
    [ws EXCEPT !.cells =
        [p \in (DOMAIN ws.cells) \cup visited \cup targets |->
            IF p \in targets THEN [v |-> None, st |-> StyleOf(ws, p[1], p[2])]
            ELSE CellOf(ws, p[1], p[2])]]

\* automate_excel.clear_sheet_data: cell.value = None for every cell of rows
\* start_row..max_row.  ok = FALSE: the assignment raised on a MergedCell.
clear_sheet_data_AE(ws, start_row) ==
    LET cells == IterRows(ws, start_row)
    IN  IF \E p \in cells : IsMergedCell(ws, p[1], p[2])
        THEN [ok |-> FALSE, ws |-> ws]
        ELSE [ok |-> TRUE, ws |-> Blank(ws, cells, cells)]

\* work_log.clear_sheet_data: safe_set_cell(ws, cell.coordinate, None) for
\* every cell of rows start_row..max_row.
clear_sheet_data_WL(ws, start_row) ==
    LET cells == IterRows(ws, start_row)
    IN  [ok |-> TRUE,
         ws |-> Blank(ws, cells, {WriteTarget(ws, p[1], p[2]) : p \in cells})]

RECURSIVE SafeWrites(_, _)
\* Several safe_set_cell calls in sequence.
SafeWrites(ws, writes) ==
    IF writes = <<>> THEN ws
    ELSE LET w == Head(writes)
         IN  SafeWrites(safe_set_cell(ws, w[1], w[2], w[3]), Tail(writes))

\* work_log.apply_consistent_layout(ws, date_label), today_str given
apply_consistent_layout(ws, date_label, today_str) ==
    LET labels == << <<1, 1, Str(<<"DATE">>)>>,
                     <<1, 2, today_str>>,
                     <<2, 1, Str(<<"Daily Recap ( - LA Office )">>)>>,
                     <<3, 1, Str(<<"Date">>)>>,
                     <<3, 2, date_label>>,
                     <<4, 1, Str(<<"Name">>)>>,
                     <<5, 1, Str(<<"Department">>)>> >>
        heads  == [c \in 1 .. NUM_COLS |-> <<HEADER_ROW, c, Headers[c]>>]
    IN  [SafeWrites(ws, labels \o heads) EXCEPT !.freeze = <<DATA_START_ROW, 1>>]

\* work_log.copy_cell_style(src_cell, dst_cell): the style the destination
\* has afterwards
copy_cell_style(src_st, dst_st) == IF HasStyle(src_st) THEN src_st ELSE dst_st

\* ---------------------------------------------------- fill_daily_sheet
\* "no date": the None of start_date, end_date and fallback_date
NoDate == -1

\* rec.get(key, "") for the key of column c
FieldOf(rec, c) ==
    CASE c = 1 -> rec.Number
      [] c = 2 -> rec.Desc
      [] c = 3 -> rec.Hr
      [] c = 4 -> rec.Min
      [] c = 5 -> rec.Complete
      [] c = 6 -> rec.Follow
      [] OTHER -> rec.Comments

\* column E holds the Complete flag
COMPLETE_COL == 5

\* automate_excel: the font override of a Complete value ("" = none)
ColourAE(val) ==
    IF ~IsStr(val) THEN ""
    ELSE IF Lower(val.s) = YES THEN GREEN
    ELSE IF Lower(val.s) = NO THEN RED
    ELSE ""

\* Mutant of ColourWL: the flag is compared without .lower().
ColourWL_case_sensitive(val) ==
    IF ~IsStr(val) THEN ""
    ELSE IF Strip(val.s) = YES THEN GREEN
    ELSE IF Strip(val.s) = NO THEN RED
    ELSE ""

\* work_log: the font override of a Complete value ("" = none)
ColourWL(val) ==
    IF ~IsStr(val) THEN ""
    ELSE IF Lower(Strip(val.s)) = YES THEN GREEN
    ELSE IF Lower(Strip(val.s)) = NO THEN RED
    ELSE ""

\* automate_excel.fill_daily_sheet, lines 298-305: the day's records
RecordsAE(df, date_obj) ==
    IF df.rows # <<>>
    THEN (IF df.has_date THEN FilterEq(df, date_obj).rows ELSE df.rows)
    ELSE <<>>

\* work_log.fill_daily_sheet, lines 259-263: the day's records
RecordsWL(df, date_obj) ==
    IF df.rows # <<>> /\ df.has_date THEN FilterEq(df, date_obj).rows ELSE df.rows

\* Mutant of RowWrites: current_row is incremented before the row is written.
RowWrites_increment_first(records, start_row) ==
    [k \in 1 .. (NUM_COLS * Len(records)) |->
        LET i == ((k - 1) \div NUM_COLS) + 1
            c == ((k - 1) % NUM_COLS) + 1
        IN  <<start_row + i, c, FieldOf(records[i], c)>>]

\* The value writes of the record rows: record i goes to row start_row+i-1.
RowWrites(records, start_row) ==
    [k \in 1 .. (NUM_COLS * Len(records)) |->
        LET i == ((k - 1) \div NUM_COLS) + 1
            c == ((k - 1) % NUM_COLS) + 1
        IN  <<start_row + i - 1, c, FieldOf(records[i], c)>>]

RECURSIVE ColourRowsAE(_, _, _)
\* complete_cell.font = Font(color=...) for each record in turn
ColourRowsAE(ws, records, current_row) ==
    IF records = <<>> THEN ws
    ELSE LET col == ColourAE(Head(records).Complete)
             w1  == IF col = "" THEN ws
                    ELSE SetStyle(ws, current_row, COMPLETE_COL,
                                  WithFont(StyleOf(ws, current_row, COMPLETE_COL), col))
         IN  ColourRowsAE(w1, Tail(records), current_row + 1)

\* automate_excel.fill_daily_sheet(sheet, date_obj, data_rows, True,
\* start_row, fallback_date).  ok = FALSE: a write hit a MergedCell.
fill_daily_sheet_AE(sheet, date_obj, df, start_row, fallback_date, today) ==
    LET records == RecordsAE(df, date_obj)
        stamps  == IF records = <<>>
                   THEN << <<1, 2, NameStr(Strftime(today))>> >> \o
                        (IF fallback_date # NoDate
                         THEN << <<3, 2, NameStr(Strftime(fallback_date))>> >>
                         ELSE <<>>)
                   ELSE << <<1, 2, NameStr(Strftime(date_obj))>> >>
        heads   == [c \in 1 .. NUM_COLS |-> <<HEADER_ROW, c, Headers[c]>>]
        writes  == stamps \o heads \o RowWrites(records, start_row)
        frozen  == [sheet EXCEPT !.freeze = <<DATA_START_ROW, 1>>]
        current_row == start_row + Len(records)
    IN  IF HitsMergedCell(sheet, writes)
        THEN [ok |-> FALSE, ws |-> sheet, last_row |-> start_row - 1]
        ELSE [ok |-> TRUE,
              ws |-> ColourRowsAE(ApplyWrites(frozen, writes), records, start_row),
              last_row |-> current_row - 1]

\* work_log.fill_daily_sheet, lines 267-279: one cell of one record
FillCellWL(ws, rec, current, col_idx) ==
    LET w1 == SetValue(ws, current, col_idx, FieldOf(rec, col_idx))
        src == StyleOf(w1, TEMPLATE_STYLE_ROW, col_idx)
        w2 == SetStyle(w1, current, col_idx,
                       copy_cell_style(src, StyleOf(w1, current, col_idx)))
        col == IF col_idx = COMPLETE_COL THEN ColourWL(rec.Complete) ELSE ""
    IN  IF col = "" THEN w2
        ELSE SetStyle(w2, current, col_idx,
                      WithFont(StyleOf(w2, current, col_idx), col))

RECURSIVE FillColsWL(_, _, _, _)
FillColsWL(ws, rec, current, col_idx) ==
    IF col_idx > NUM_COLS THEN ws
    ELSE FillColsWL(FillCellWL(ws, rec, current, col_idx), rec, current, col_idx + 1)

RECURSIVE FillRowsWL(_, _, _)
FillRowsWL(ws, records, current) ==
    IF records = <<>> THEN ws
    ELSE FillRowsWL(FillColsWL(ws, Head(records), current, 1), Tail(records), current + 1)

\* work_log.fill_daily_sheet(sheet, date_obj, data_df, start_row).
\* ok = FALSE: dest_cell.value hit a MergedCell.
fill_daily_sheet_WL(sheet, date_obj, df, start_row) ==
    LET records == RecordsWL(df, date_obj)
        current == start_row + Len(records)
    IN  IF HitsMergedCell(sheet, RowWrites(records, start_row))
        THEN [ok |-> FALSE, ws |-> sheet, last_row |-> start_row - 1]
        ELSE [ok |-> TRUE,
              ws |-> FillRowsWL(sheet, records, start_row),
              last_row |-> current - 1]

\* ------------------------------------------------------- the Total sheet
RECURSIVE SortedNames_by_date(_)
\* Mutant of SortedNames: the keys in ascending order of the date they name
\* (year first), not of the string.
SortedNames_by_date(S) ==
    IF S = {} THEN <<>>
    ELSE LET m == CHOOSE x \in S : \A y \in S \ {x} :
                      NameLess(<<x[3], x[1], x[2]>>, <<y[3], y[1], y[2]>>)
         IN  <<m>> \o SortedNames_by_date(S \ {m})

RECURSIVE SortedNames(_)
\* sorted(daily_info.items()): the keys in ascending string order
SortedNames(S) ==
    IF S = {} THEN <<>>
    ELSE LET m == CHOOSE x \in S : \A y \in S \ {x} : NameLess(x, y)
         IN  <<m>> \o SortedNames(S \ {m})

\* daily_info[sheet_name] = (start_row, last_row)
DictPut(d, key, val) ==
    [k \in (DOMAIN d) \cup {key} |-> IF k = key THEN val ELSE d[k]]

\* columns B..E of the Total sheet
TOTAL_DATE_COL == 2

RECURSIVE WriteSummary_no_skip(_, _, _, _, _)
\* Mutant of WriteSummary: the "if last_row < start_row: continue" is missing,
\* every sheet gets a summary row.
WriteSummary_no_skip(ws, names, daily_info, rate, row_idx) ==
    IF names = <<>> THEN ws
    ELSE LET sheet_name == Head(names)
             start_row  == daily_info[sheet_name][1]
             last_row   == daily_info[sheet_name][2]
             w1 == safe_set_cell(ws, row_idx, 2, NameStr(sheet_name))
             w2 == safe_set_cell(w1, row_idx, 3, HourFormula(sheet_name, start_row, last_row))
             w3 == safe_set_cell(w2, row_idx, 4, Num(rate))
             w4 == safe_set_cell(w3, row_idx, 5, CostFormula(row_idx))
         IN  WriteSummary_no_skip(w4, Tail(names), daily_info, rate, row_idx + 1)

RECURSIVE WriteSummary(_, _, _, _, _)
\* update_total_sheet, lines 357-370 (work_log 301-314): the summary rows
WriteSummary(ws, names, daily_info, rate, row_idx) ==
    IF names = <<>> THEN ws
    ELSE LET sheet_name == Head(names)
             start_row  == daily_info[sheet_name][1]
             last_row   == daily_info[sheet_name][2]
         IN  IF last_row < start_row
             THEN WriteSummary(ws, Tail(names), daily_info, rate, row_idx)
             ELSE LET w1 == safe_set_cell(ws, row_idx, TOTAL_DATE_COL, NameStr(sheet_name))
                      w2 == safe_set_cell(w1, row_idx, TOTAL_DATE_COL + 1,
                                          HourFormula(sheet_name, start_row, last_row))
                      w3 == safe_set_cell(w2, row_idx, TOTAL_DATE_COL + 2, Num(rate))
                      w4 == safe_set_cell(w3, row_idx, TOTAL_DATE_COL + 3, CostFormula(row_idx))
                  IN  WriteSummary(w4, Tail(names), daily_info, rate, row_idx + 1)

\* update_total_sheet(total_sheet, daily_info, rate).  ok = FALSE: the
\* clearing loop's cell.value = None hit a MergedCell.
update_total_sheet(total_sheet, daily_info, rate) ==
    LET cells == IterRows(total_sheet, TOTAL_FIRST_ROW)
    IN  IF \E p \in cells : IsMergedCell(total_sheet, p[1], p[2])
        THEN [ok |-> FALSE, ws |-> total_sheet]
        ELSE [ok |-> TRUE,
              ws |-> WriteSummary(Blank(total_sheet, cells, cells),
                                  SortedNames(DOMAIN daily_info),
                                  daily_info, rate, TOTAL_FIRST_ROW)]

\* ------------------------------------------------------------- workbooks
\* A workbook is the sequence of its sheets (wb.sheetnames in order).
TemplateTitle == [k |-> "Template", name |-> NoText]

TotalTitle == [k |-> "Total", name |-> NoText]

CopyTitle == [k |-> "Template Copy", name |-> NoText]

DayTitle(name) == [k |-> "day", name |-> name]

SheetNames(wb) == {wb[i].title : i \in DOMAIN wb}

\* the index of wb[title]
IndexOf(wb, title) == CHOOSE i \in DOMAIN wb : wb[i].title = title

EmptySheet(title) ==
    [title |-> title, hidden |-> FALSE, cells |-> <<>>, merged |-> {},
     freeze |-> <<0, 0>>]

\* wb.copy_worksheet(wb[TEMPLATE_SHEET_NAME]): the copy, appended to the
\* workbook: cell values, styles and merged ranges
copy_worksheet(wb, title) ==
    LET src == wb[IndexOf(wb, title)]
    IN  Append(wb, [EmptySheet(CopyTitle) EXCEPT !.cells = src.cells,
                                                 !.merged = src.merged])

\* The title openpyxl gives instead of one another sheet of the workbook
\* has: the text with the next free number appended, "MM-DD-YYYY1", which
\* reads as the triple with a five-digit last field.
RenamedTitle(name) == [k |-> "day", name |-> <<name[1], name[2], name[3] * 10 + 1>>]

\* new_sheet.title = sheet_name, on the sheet just appended: the setter
\* never raises on a name in use, it stores a name that is free
SetTitle(wb, sheet_name) ==
    [wb EXCEPT ![Len(wb)].title =
        IF \E i \in 1 .. (Len(wb) - 1) : wb[i].title = DayTitle(sheet_name)
        THEN RenamedTitle(sheet_name)
        ELSE DayTitle(sheet_name)]

\* create_or_update_total_sheet(wb, daily_info, rate)
create_or_update_total_sheet(wb, daily_info, rate) ==
    LET wb1 == IF TotalTitle \in SheetNames(wb) THEN wb
               ELSE Append(wb, EmptySheet(TotalTitle))
        i   == IndexOf(wb1, TotalTitle)
        hdr == SafeWrites(wb1[i],
                   << <<TOTAL_HEADER_ROW, TOTAL_DATE_COL, Str(<<"Date">>)>>,
                      <<TOTAL_HEADER_ROW, TOTAL_DATE_COL + 1, Str(<<"Hour">>)>>,
                      <<TOTAL_HEADER_ROW, TOTAL_DATE_COL + 2, Str(<<"Rate">>)>>,
                      <<TOTAL_HEADER_ROW, TOTAL_DATE_COL + 3, Str(<<"Total Cost">>)>> >>)
        upd == update_total_sheet(hdr, daily_info, rate)
    IN  [ok |-> upd.ok,
         wb |-> [wb1 EXCEPT ![i] = [upd.ws EXCEPT !.freeze = <<TOTAL_FIRST_ROW, 1>>]]]

RECURSIVE create_date_list_two_days(_, _)
\* Mutant of create_date_list: "current += datetime.timedelta(days=2)".
create_date_list_two_days(start_date, end_date) ==
    IF start_date <= end_date
    THEN <<start_date>> \o create_date_list_two_days(start_date + 2, end_date)
    ELSE <<>>

RECURSIVE create_date_list(_, _)
\* create_date_list(start_date, end_date)
create_date_list(start_date, end_date) ==
    IF start_date <= end_date
    THEN <<start_date>> \o create_date_list(start_date + 1, end_date)
    ELSE <<>>

\* ------------------------------------------------------- the environment
\* What the user may type at a date prompt: nothing, a day, or no date.
DateTexts == {NoText, BadDateText} \cup {Strftime(o) : o \in Days}

\* datetime.date.today() of the run
Todays == {0, 2}

\* What the user may type at the rate prompt: a number or not.
RateTexts == {[valid |-> TRUE, value |-> 25], [valid |-> TRUE, value |-> 30],
              [valid |-> FALSE, value |-> 0]}

Rec(n, hr, min, complete, date) ==
    [Number |-> Num(n), Desc |-> Str(<<"task">>), Hr |-> Num(hr), Min |-> Num(min),
     Complete |-> complete, Follow |-> Str(<<"none">>), Comments |-> NaN,
     Date |-> date]

\* The files on disk.  header: a line holds the seven required column names.
PlainFile ==
    [exists |-> TRUE, header |-> TRUE,
     frame |-> [has_date |-> FALSE,
                rows |-> << Rec(1, 2, 30, Str(<<"Y","e","s">>), NoDateEntry),
                            Rec(2, 0, 45, Str(<<"m","a","y","b","e">>), NoDateEntry) >>]]

DatedFile ==
    [exists |-> TRUE, header |-> TRUE,
     frame |-> [has_date |-> TRUE,
                rows |-> << Rec(3, 2, 30, Str(<<"Y","e","s">>), RawDate(<<1, 2, 2024>>)) >>]]

MixedFile ==
    [exists |-> TRUE, header |-> TRUE,
     frame |-> [has_date |-> TRUE,
                rows |-> << Rec(4, 1, 0, Str(<<"N","O">>), RawDate(Epoch)),
                            Rec(5, 0, 15, Str(<<" ","y","e","s">>), RawDate(BadDateText)),
                            Rec(6, 3, 0, NaN, RawDate(<<1, 1, 2024>>)) >>]]

NoHeaderFile == [exists |-> TRUE, header |-> FALSE, frame |-> EmptyFrame]

MissingFile == [exists |-> FALSE, header |-> FALSE, frame |-> EmptyFrame]

Paths == {"plain.csv", "dated.csv", "mixed.csv", "notes.txt", "gone.csv"}

Disk(path) ==
    CASE path = "plain.csv" -> PlainFile
      [] path = "dated.csv" -> DatedFile
      [] path = "mixed.csv" -> MixedFile
      [] path = "notes.txt" -> NoHeaderFile
      [] OTHER -> MissingFile

\* The answers to the file prompt: up to MaxFiles paths, in order.
PathLists == UNION {[1 .. n -> Paths] : n \in 0 .. MaxFiles}

\* --- template workbooks
\* Row 6 headers, a styled sample row 7 and one more sample row, as the
\* template of the repository is described (rows 1-6 layout, row 7 style).
HeaderCells ==
    [p \in {HEADER_ROW} \X (1 .. NUM_COLS) |-> [v |-> Headers[p[2]], st |-> TplStyle(0)]]

SampleCells ==
    [p \in {TEMPLATE_STYLE_ROW} \X (1 .. NUM_COLS) |->
        [v |-> Str(<<"sample">>), st |-> TplStyle(p[2])]]

LabelCells ==
    (<<1, 1>> :> [v |-> Str(<<"DATE">>), st |-> NoStyle]) @@
    (<<2, 1>> :> [v |-> Str(<<"Daily Recap">>), st |-> TplStyle(0)]) @@
    (<<8, 3>> :> [v |-> Num(9), st |-> NoStyle])

\* the MergedCells of a range: they exist, and hold nothing
MergedCells(rg) ==
    [p \in ((rg[1] .. rg[3]) \X (rg[2] .. rg[4])) \ {<<rg[1], rg[2]>>} |-> NewCell]

\* A2:G2, the title bar
TitleRange == <<2, 1, 2, NUM_COLS>>

\* A6:A7, a header cell merged over the first data row
SpanRange == <<HEADER_ROW, 1, HEADER_ROW + 1, 1>>

\* the usual template: merged title bar, headers, styled sample rows
PlainTemplate ==
    [EmptySheet(TemplateTitle) EXCEPT
        !.cells = LabelCells @@ HeaderCells @@ SampleCells @@ MergedCells(TitleRange),
        !.merged = {TitleRange}]

\* a template whose "Number" header is merged over rows 6 and 7
SpanTemplate ==
    [EmptySheet(TemplateTitle) EXCEPT
        !.cells = LabelCells @@ HeaderCells @@ MergedCells(SpanRange) @@ SampleCells,
        !.merged = {SpanRange}]

\* a template without sample rows and without a styled row 7
BareTemplate ==
    [EmptySheet(TemplateTitle) EXCEPT !.cells = (<<1, 1>> :> LabelCells[<<1, 1>>]) @@ HeaderCells]

\* an earlier Total sheet: headers and three old summary rows
StaleTotalCells ==
    [p \in (TOTAL_HEADER_ROW .. (TOTAL_HEADER_ROW + 3)) \X
           (TOTAL_DATE_COL .. (TOTAL_DATE_COL + 3)) |-> [v |-> Str(<<"old">>), st |-> NoStyle]]

StaleTotal == [EmptySheet(TotalTitle) EXCEPT !.cells = StaleTotalCells]

\* a Total sheet whose "Date" header B2:B3 is merged
HeaderRange == <<TOTAL_HEADER_ROW - 1, TOTAL_DATE_COL, TOTAL_HEADER_ROW, TOTAL_DATE_COL>>

HeaderMergedTotal ==
    [EmptySheet(TotalTitle) EXCEPT
        !.cells = MergedCells(HeaderRange) @@ StaleTotalCells @@
                  (<<HeaderRange[1], HeaderRange[2]>> :> [v |-> Str(<<"old">>), st |-> NoStyle]),
        !.merged = {HeaderRange}]

\* a Total sheet with a merged range B4:B5 among its summary rows
BodyRange == <<TOTAL_FIRST_ROW, TOTAL_DATE_COL, TOTAL_FIRST_ROW + 1, TOTAL_DATE_COL>>

BodyMergedTotal ==
    [EmptySheet(TotalTitle) EXCEPT
        !.cells = MergedCells(BodyRange) @@ StaleTotalCells,
        !.merged = {BodyRange}]

\* What TEMPLATE_PATH may hold.
TemplateFiles ==
    { [exists |-> TRUE, wb |-> <<PlainTemplate>>],
      [exists |-> TRUE, wb |-> <<SpanTemplate, StaleTotal>>],
      [exists |-> TRUE, wb |-> <<HeaderMergedTotal, BareTemplate>>],
      [exists |-> TRUE, wb |-> <<PlainTemplate, BodyMergedTotal>>],
      [exists |-> TRUE, wb |-> <<StaleTotal>>],
      [exists |-> FALSE, wb |-> <<>>] }

\* A daily sheet of an earlier run, named 01-01-2024, with three data rows.
OldDaySheet ==
    [EmptySheet(DayTitle(<<1, 1, 2024>>)) EXCEPT
        !.cells = HeaderCells @@
                  [p \in (DATA_START_ROW .. (DATA_START_ROW + 2)) \X (1 .. NUM_COLS) |->
                      [v |-> Str(<<"old">>), st |-> NoStyle]]]

\* What TEMPLATE_PATH may hold when it is the output of an earlier run.
ReusedTemplateFiles ==
    { [exists |-> TRUE, wb |-> <<PlainTemplate, OldDaySheet>>],
      [exists |-> TRUE, wb |-> <<BareTemplate, OldDaySheet, StaleTotal>>] }

\* ---------------------------------------------------------------- state
VARIABLES
    prog,         \* "automate_excel" or "work_log": which main() runs
    today,        \* datetime.date.today()
    pc,           \* the position of main()
    err,          \* the error the run stopped with ("" = none)
    start_date,   \* prompt_date_range()[0] (NoDate = None)
    end_date,     \* prompt_date_range()[1]
    file_paths,   \* prompt_file_paths()
    rate,         \* prompt_rate()
    wb,           \* the loaded workbook
    combined_df,  \* the data frame main holds
    daily_info,   \* sheet name -> (first row, last row)
    date_list,    \* the days to generate
    date_label,   \* work_log's label for B3
    fallback_on,  \* automate_excel: whether fallback_date is the day
    di,           \* the loop index: date_list[di] is the current day
    last_row,     \* what fill_daily_sheet returned for the current day
    out_file,     \* the saved output file
    date_input,   \* prompt_date_range: <<start_date_str, end_date_str>> as typed
    template_file,\* what TEMPLATE_PATH holds on disk
    unit          \* the function-level harness: the last call and its sheet

vars == <<prog, today, pc, err, start_date, end_date, file_paths, rate, wb,
          combined_df, daily_info, date_list, date_label, fallback_on, di,
          last_row, out_file, date_input, template_file, unit>>

NoFile == [exists |-> FALSE, name |-> <<>>, wb |-> <<>>]

\* No function-level call: the harness is idle during a run of main.
NoCall == [op |-> "none", prog |-> "", ws |-> EmptySheet(CopyTitle),
           prev |-> EmptySheet(CopyTitle), r |-> 0, c |-> 0, v |-> None,
           df |-> EmptyFrame, day |-> NoDate, start_row |-> 0, ok |-> TRUE,
           ret |-> 0, calls |-> 0]

Init ==
    /\ prog \in {"automate_excel", "work_log"}
    /\ today \in Todays
    /\ pc = "prompt_dates"
    /\ err = ""
    /\ start_date = NoDate
    /\ end_date = NoDate
    /\ file_paths = <<>>
    /\ rate = 0
    /\ wb = <<>>
    /\ combined_df = EmptyFrame
    /\ daily_info = <<>>
    /\ date_list = <<>>
    /\ date_label = None
    /\ fallback_on = FALSE
    /\ di = 0
    /\ last_row = 0
    /\ out_file = NoFile
    /\ date_input = <<NoText, NoText>>
    /\ template_file \in TemplateFiles
    /\ unit = NoCall

\* A run whose template workbook already holds a daily sheet.
InitReused ==
    /\ prog \in {"automate_excel", "work_log"}
    /\ today \in Todays
    /\ pc = "prompt_dates"
    /\ err = ""
    /\ start_date = NoDate
    /\ end_date = NoDate
    /\ file_paths = <<>>
    /\ rate = 0
    /\ wb = <<>>
    /\ combined_df = EmptyFrame
    /\ daily_info = <<>>
    /\ date_list = <<>>
    /\ date_label = None
    /\ fallback_on = FALSE
    /\ di = 0
    /\ last_row = 0
    /\ out_file = NoFile
    /\ date_input = <<NoText, NoText>>
    /\ template_file \in ReusedTemplateFiles
    /\ unit = NoCall

\* exit(1) after logging.error(reason)
Exit(reason) == pc' = "aborted" /\ err' = reason

\* an exception nothing catches ends the run
Crash(reason) == pc' = "crashed" /\ err' = reason

\* Mutant of PromptDateRange: "if start_date >= end_date" rejects a one-day
\* range.
PromptDateRange_rejects_equal ==
    /\ pc = "prompt_dates"
    /\ UNCHANGED <<template_file, unit>>
    /\ \E start_str \in DateTexts, end_str \in DateTexts :
        /\ date_input' = <<start_str, end_str>>
        /\ IF start_str = NoText /\ end_str = NoText
           THEN /\ pc' = "prompt_files"
                /\ UNCHANGED <<err, start_date, end_date>>
           ELSE IF start_str # NoText /\ end_str = NoText
           THEN IF Parseable(start_str)
                THEN /\ start_date' = Strptime(start_str)
                     /\ pc' = "prompt_files"
                     /\ UNCHANGED <<err, end_date>>
                ELSE /\ Exit("Invalid start date format")
                     /\ UNCHANGED <<start_date, end_date>>
           ELSE IF ~(Parseable(start_str) /\ Parseable(end_str))
           THEN /\ Exit("Invalid date format")
                /\ UNCHANGED <<start_date, end_date>>
           ELSE IF Strptime(start_str) >= Strptime(end_str)
           THEN /\ Exit("Start date must not be later than end date")
                /\ UNCHANGED <<start_date, end_date>>
           ELSE /\ start_date' = Strptime(start_str)
                /\ end_date' = Strptime(end_str)
                /\ pc' = "prompt_files"
                /\ UNCHANGED err
    /\ UNCHANGED <<prog, today, file_paths, rate, wb, combined_df, daily_info,
                   date_list, date_label, fallback_on, di, last_row, out_file>>

\* prompt_date_range()
PromptDateRange ==
    /\ pc = "prompt_dates"
    /\ UNCHANGED <<template_file, unit>>
    /\ \E start_str \in DateTexts, end_str \in DateTexts :
        /\ date_input' = <<start_str, end_str>>
        /\ IF start_str = NoText /\ end_str = NoText
           THEN /\ pc' = "prompt_files"
                /\ UNCHANGED <<err, start_date, end_date>>
           ELSE IF start_str # NoText /\ end_str = NoText
           THEN IF Parseable(start_str)
                THEN /\ start_date' = Strptime(start_str)
                     /\ pc' = "prompt_files"
                     /\ UNCHANGED <<err, end_date>>
                ELSE /\ Exit("Invalid start date format")
                     /\ UNCHANGED <<start_date, end_date>>
           ELSE IF ~(Parseable(start_str) /\ Parseable(end_str))
           THEN /\ Exit("Invalid date format")
                /\ UNCHANGED <<start_date, end_date>>
           ELSE IF Strptime(start_str) > Strptime(end_str)
           THEN /\ Exit("Start date must not be later than end date")
                /\ UNCHANGED <<start_date, end_date>>
           ELSE /\ start_date' = Strptime(start_str)
                /\ end_date' = Strptime(end_str)
                /\ pc' = "prompt_files"
                /\ UNCHANGED err
    /\ UNCHANGED <<prog, today, file_paths, rate, wb, combined_df, daily_info,
                   date_list, date_label, fallback_on, di, last_row, out_file>>

\* prompt_file_paths()
PromptFilePaths ==
    /\ pc = "prompt_files"
    /\ UNCHANGED <<date_input, template_file, unit>>
    /\ \E paths \in PathLists :
        IF \E i \in DOMAIN paths : ~Disk(paths[i]).exists
        THEN Exit("File not found") /\ UNCHANGED file_paths
        ELSE file_paths' = paths /\ pc' = "prompt_rate" /\ UNCHANGED err
    /\ UNCHANGED <<prog, today, start_date, end_date, rate, wb, combined_df,
                   daily_info, date_list, date_label, fallback_on, di, last_row,
                   out_file>>

\* prompt_rate()
PromptRate ==
    /\ pc = "prompt_rate"
    /\ UNCHANGED <<date_input, template_file, unit>>
    /\ \E rate_str \in RateTexts :
        IF rate_str.valid
        THEN rate' = rate_str.value /\ pc' = "load" /\ UNCHANGED err
        ELSE Exit("Invalid rate") /\ UNCHANGED rate
    /\ UNCHANGED <<prog, today, start_date, end_date, file_paths, wb, combined_df,
                   daily_info, date_list, date_label, fallback_on, di, last_row,
                   out_file>>

\* main: the template file exists, is loaded and holds the template sheet
LoadWorkbook ==
    /\ pc = "load"
    /\ UNCHANGED <<date_input, template_file, unit>>
    /\ LET f == template_file
       IN  IF ~f.exists
           THEN Exit("Template file not found") /\ UNCHANGED wb
           ELSE IF TemplateTitle \notin SheetNames(f.wb)
           THEN Exit("No sheet named Template") /\ wb' = f.wb
           ELSE wb' = f.wb /\ pc' = "combine" /\ UNCHANGED err
    /\ UNCHANGED <<prog, today, start_date, end_date, file_paths, rate, combined_df,
                   daily_info, date_list, date_label, fallback_on, di, last_row,
                   out_file>>

RECURSIVE ConcatAll(_)
\* pd.concat of the frames read from the files, in the order given
ConcatAll(paths) ==
    IF paths = <<>> THEN EmptyFrame
    ELSE IF Len(paths) = 1 THEN Disk(paths[1]).frame
    ELSE Concat(Disk(paths[1]).frame, ConcatAll(Tail(paths)))

\* automate_excel.combine_csv_data(file_paths)
combine_csv_data_AE(paths) == ConcatAll(paths)

\* work_log.combine_csv_data(file_paths): the Date column is parsed here
combine_csv_data_WL(paths) ==
    LET combined == ConcatAll(paths)
    IN  IF combined.has_date THEN ParseDates(combined) ELSE combined

\* Mutant of CombineCsvData: read_csv_data does not call check_file_format.
CombineCsvData_no_format_check ==
    /\ pc = "combine"
    /\ combined_df' = IF prog = "work_log"
                      THEN combine_csv_data_WL(file_paths)
                      ELSE combine_csv_data_AE(file_paths)
    /\ pc' = "plan"
    /\ daily_info' = <<>>
    /\ UNCHANGED <<prog, today, err, start_date, end_date, file_paths, rate, wb,
                   date_list, date_label, fallback_on, di, last_row, out_file, date_input, template_file, unit>>

\* combined_df = combine_csv_data(file_paths); daily_info = {}
\* (read_csv_data -> check_file_format exits on a file without the header)
CombineCsvData ==
    /\ pc = "combine"
    /\ UNCHANGED <<date_input, template_file, unit>>
    /\ IF \E i \in DOMAIN file_paths : ~Disk(file_paths[i]).header
       THEN Exit("required header not found") /\ UNCHANGED combined_df
       ELSE /\ combined_df' = IF prog = "work_log"
                              THEN combine_csv_data_WL(file_paths)
                              ELSE combine_csv_data_AE(file_paths)
            /\ pc' = "plan"
            /\ UNCHANGED err
    /\ daily_info' = <<>>
    /\ UNCHANGED <<prog, today, start_date, end_date, file_paths, rate, wb,
                   date_list, date_label, fallback_on, di, last_row, out_file>>

\* automate_excel.main, lines 426-428, 450-454, 477-483 and 489: the frame,
\* the days and the fallback date of the three scenarios
PlanAE(df, start, end, now) ==
    IF start = NoDate /\ end = NoDate
    THEN [df |-> df, dates |-> <<now>>, fallback |-> TRUE]
    ELSE IF end = NoDate
    THEN [df |-> IF df.rows # <<>> /\ df.has_date
                 THEN FilterEq(ParseDates(df), start) ELSE df,
          dates |-> <<start>>, fallback |-> TRUE]
    ELSE [df |-> IF df.rows # <<>> /\ df.has_date
                 THEN FilterBetween(ParseDates(df), start, end) ELSE df,
          dates |-> create_date_list(start, end), fallback |-> (start = end)]

\* work_log.main, lines 371-380: the days and the label of the three scenarios
PlanWL(start, end, now) ==
    IF start = NoDate /\ end = NoDate
    THEN [dates |-> <<now>>, label |-> NameStr(Strftime(now))]
    ELSE IF end = NoDate
    THEN [dates |-> <<start>>, label |-> NameStr(Strftime(start))]
    ELSE [dates |-> create_date_list(start, end),
          label |-> RangeStr(Strftime(start), Strftime(end))]

PlanDates ==
    /\ pc = "plan"
    /\ UNCHANGED <<date_input, template_file, unit>>
    /\ IF prog = "automate_excel"
       THEN LET plan == PlanAE(combined_df, start_date, end_date, today)
            IN  /\ combined_df' = plan.df
                /\ date_list' = plan.dates
                /\ fallback_on' = plan.fallback
                /\ UNCHANGED date_label
       ELSE LET plan == PlanWL(start_date, end_date, today)
            IN  /\ date_list' = plan.dates
                /\ date_label' = plan.label
                /\ UNCHANGED <<combined_df, fallback_on>>
    /\ di' = 1
    /\ pc' = "clone"
    /\ UNCHANGED <<prog, today, err, start_date, end_date, file_paths, rate, wb,
                   daily_info, last_row, out_file>>

\* the day of the current loop round and the sheet made for it
Day == date_list[di]

NewSheet == wb[Len(wb)]

\* new_sheet = wb.copy_worksheet(wb[TEMPLATE_SHEET_NAME]); new_sheet.title = sheet_name
CloneTemplate ==
    /\ pc = "clone"
    /\ UNCHANGED <<date_input, template_file, unit>>
    /\ wb' = SetTitle(copy_worksheet(wb, TemplateTitle), Strftime(Day))
    /\ pc' = IF prog = "work_log" THEN "layout" ELSE "clear"
    /\ UNCHANGED <<prog, today, err, start_date, end_date, file_paths, rate,
                   combined_df, daily_info, date_list, date_label, fallback_on, di,
                   last_row, out_file>>

\* work_log: apply_consistent_layout(new_sheet, date_label)
ApplyLayout ==
    /\ pc = "layout"
    /\ UNCHANGED <<date_input, template_file, unit>>
    /\ wb' = [wb EXCEPT ![Len(wb)] =
                 apply_consistent_layout(NewSheet, date_label, NameStr(Strftime(today)))]
    /\ pc' = "clear"
    /\ UNCHANGED <<prog, today, err, start_date, end_date, file_paths, rate,
                   combined_df, daily_info, date_list, date_label, fallback_on, di,
                   last_row, out_file>>

\* Mutant of ClearSheet: the rows are wiped on the template sheet, not on
\* the new sheet.
ClearSheet_on_template ==
    /\ pc = "clear"
    /\ UNCHANGED <<date_input, template_file, unit>>
    /\ LET tpl == wb[IndexOf(wb, TemplateTitle)]
           res == IF prog = "work_log"
                  THEN clear_sheet_data_WL(tpl, DATA_START_ROW)
                  ELSE clear_sheet_data_AE(tpl, DATA_START_ROW)
       IN  IF res.ok
           THEN /\ wb' = [wb EXCEPT ![IndexOf(wb, TemplateTitle)] = res.ws]
                /\ pc' = "fill"
                /\ UNCHANGED err
           ELSE Crash("MergedCell value is read-only") /\ UNCHANGED wb
    /\ UNCHANGED <<prog, today, start_date, end_date, file_paths, rate,
                   combined_df, daily_info, date_list, date_label, fallback_on, di,
                   last_row, out_file>>

\* clear_sheet_data(new_sheet, start_row=7)
ClearSheet ==
    /\ pc = "clear"
    /\ UNCHANGED <<date_input, template_file, unit>>
    /\ LET res == IF prog = "work_log"
                  THEN clear_sheet_data_WL(NewSheet, DATA_START_ROW)
                  ELSE clear_sheet_data_AE(NewSheet, DATA_START_ROW)
       IN  IF res.ok
           THEN wb' = [wb EXCEPT ![Len(wb)] = res.ws] /\ pc' = "fill" /\ UNCHANGED err
           ELSE Crash("MergedCell value is read-only") /\ UNCHANGED wb
    /\ UNCHANGED <<prog, today, start_date, end_date, file_paths, rate,
                   combined_df, daily_info, date_list, date_label, fallback_on, di,
                   last_row, out_file>>

\* last_row = fill_daily_sheet(new_sheet, ...)
FillSheet ==
    /\ pc = "fill"
    /\ UNCHANGED <<date_input, template_file, unit>>
    /\ LET res == IF prog = "work_log"
                  THEN fill_daily_sheet_WL(NewSheet, Day, combined_df, DATA_START_ROW)
                  ELSE fill_daily_sheet_AE(NewSheet, Day, combined_df, DATA_START_ROW,
                                           IF fallback_on THEN Day ELSE NoDate, today)
       IN  IF res.ok
           THEN /\ wb' = [wb EXCEPT ![Len(wb)] = res.ws]
                /\ last_row' = res.last_row
                /\ pc' = "record"
                /\ UNCHANGED err
           ELSE Crash("MergedCell value is read-only") /\ UNCHANGED <<wb, last_row>>
    /\ UNCHANGED <<prog, today, start_date, end_date, file_paths, rate,
                   combined_df, daily_info, date_list, date_label, fallback_on, di,
                   out_file>>

\* Mutant of RecordRange: work_log writes the day's total into C7, a data
\* cell, not into C4.
RecordRange_total_in_data_row ==
    /\ pc = "record"
    /\ UNCHANGED <<date_input, template_file, unit>>
    /\ daily_info' = DictPut(daily_info, Strftime(Day), <<DATA_START_ROW, last_row>>)
    /\ IF prog = "work_log" /\ IsMergedCell(NewSheet, DATA_START_ROW, 3)
       THEN Crash("MergedCell value is read-only") /\ UNCHANGED <<wb, di>>
       ELSE /\ wb' = IF prog = "work_log"
                     THEN [wb EXCEPT ![Len(wb)] =
                              SetValue(NewSheet, DATA_START_ROW, 3,
                                       IF last_row >= DATA_START_ROW
                                       THEN LocalHourFormula(last_row) ELSE Num(0))]
                     ELSE wb
            /\ di' = di + 1
            /\ pc' = IF di < Len(date_list) THEN "clone" ELSE "total"
            /\ UNCHANGED err
    /\ UNCHANGED <<prog, today, start_date, end_date, file_paths, rate,
                   combined_df, date_list, date_label, fallback_on, last_row, out_file>>

\* daily_info[sheet_name] = (7, last_row); work_log then writes the day's
\* total into C4 of the sheet; the loop goes on to the next day
RecordRange ==
    /\ pc = "record"
    /\ UNCHANGED <<date_input, template_file, unit>>
    /\ daily_info' = DictPut(daily_info, Strftime(Day), <<DATA_START_ROW, last_row>>)
    /\ IF prog = "work_log" /\ IsMergedCell(NewSheet, 4, 3)
       THEN Crash("MergedCell value is read-only") /\ UNCHANGED <<wb, di>>
       ELSE /\ wb' = IF prog = "work_log"
                     THEN [wb EXCEPT ![Len(wb)] =
                              SetValue(NewSheet, 4, 3,
                                       IF last_row >= DATA_START_ROW
                                       THEN LocalHourFormula(last_row) ELSE Num(0))]
                     ELSE wb
            /\ di' = di + 1
            /\ pc' = IF di < Len(date_list) THEN "clone" ELSE "total"
            /\ UNCHANGED err
    /\ UNCHANGED <<prog, today, start_date, end_date, file_paths, rate,
                   combined_df, date_list, date_label, fallback_on, last_row, out_file>>

\* create_or_update_total_sheet(wb, daily_info, rate)
BuildTotal ==
    /\ pc = "total"
    /\ UNCHANGED <<date_input, template_file, unit>>
    /\ LET res == create_or_update_total_sheet(wb, daily_info, rate)
       IN  IF res.ok
           THEN wb' = res.wb /\ pc' = "hide" /\ UNCHANGED err
           ELSE Crash("MergedCell value is read-only") /\ UNCHANGED wb
    /\ UNCHANGED <<prog, today, start_date, end_date, file_paths, rate,
                   combined_df, daily_info, date_list, date_label, fallback_on, di,
                   last_row, out_file>>

\* Mutant of HideTemplate: the sheet_state assignment is missing.
HideTemplate_not_hidden ==
    /\ pc = "hide"
    /\ pc' = "save"
    /\ UNCHANGED <<prog, today, err, start_date, end_date, file_paths, rate, wb,
                   combined_df, daily_info, date_list, date_label, fallback_on, di,
                   last_row, out_file, date_input, template_file, unit>>

\* wb[TEMPLATE_SHEET_NAME].sheet_state = "hidden"
HideTemplate ==
    /\ pc = "hide"
    /\ UNCHANGED <<date_input, template_file, unit>>
    /\ wb' = [wb EXCEPT ![IndexOf(wb, TemplateTitle)].hidden = TRUE]
    /\ pc' = "save"
    /\ UNCHANGED <<prog, today, err, start_date, end_date, file_paths, rate,
                   combined_df, daily_info, date_list, date_label, fallback_on, di,
                   last_row, out_file>>

\* the output file name of the run
OutputName ==
    IF Len(date_list) = 1 THEN NameStr(Strftime(date_list[1]))
    ELSE RangeStr(Strftime(date_list[1]), Strftime(date_list[Len(date_list)]))

\* Mutant of SaveWorkbook: the file is written before the error is noticed,
\* a run that ends with exit(1) leaves an output file.
SaveWorkbook_writes_then_fails ==
    /\ pc = "save"
    /\ out_file' = [exists |-> TRUE, name |-> OutputName, wb |-> wb]
    /\ \E writable \in BOOLEAN :
        IF writable THEN pc' = "done" /\ UNCHANGED err
        ELSE Exit("Permission error saving")
    /\ UNCHANGED <<prog, today, start_date, end_date, file_paths, rate, wb,
                   combined_df, daily_info, date_list, date_label, fallback_on, di,
                   last_row, date_input, template_file, unit>>

\* wb.save(output_filepath); a PermissionError ends the run with exit(1)
SaveWorkbook ==
    /\ pc = "save"
    /\ UNCHANGED <<date_input, template_file, unit>>
    /\ \E writable \in BOOLEAN :
        IF writable
        THEN /\ out_file' = [exists |-> TRUE, name |-> OutputName, wb |-> wb]
             /\ pc' = "done"
             /\ UNCHANGED err
        ELSE Exit("Permission error saving") /\ UNCHANGED out_file
    /\ UNCHANGED <<prog, today, start_date, end_date, file_paths, rate, wb,
                   combined_df, daily_info, date_list, date_label, fallback_on, di,
                   last_row>>

Next ==
    \/ PromptDateRange
    \/ PromptFilePaths
    \/ PromptRate
    \/ LoadWorkbook
    \/ CombineCsvData
    \/ PlanDates
    \/ CloneTemplate
    \/ ApplyLayout
    \/ ClearSheet
    \/ FillSheet
    \/ RecordRange
    \/ BuildTotal
    \/ HideTemplate
    \/ SaveWorkbook

Spec == Init /\ [][Next]_vars

\* The runs on a template workbook that is the output of an earlier run.
SpecReused == InitReused /\ [][Next]_vars

\* ------------------------------------------------ function-level harness
\* The functions called one at a time on a sheet, with arguments drawn from
\* small sets: safe_set_cell at any address, clear_sheet_data,
\* apply_consistent_layout and fill_daily_sheet at several start rows.

\* Number of calls made on one sheet.
MaxCalls == 2

\* The sheets a call may start from: the template and Total sheets above.
UnitSheets == {PlainTemplate, SpanTemplate, BareTemplate, StaleTotal,
               HeaderMergedTotal, BodyMergedTotal}

\* The addresses and values safe_set_cell is called with.
UnitRows == {TitleRange[1], HeaderRange[3], HEADER_ROW, TEMPLATE_STYLE_ROW}

UnitCols == 1 .. 2

UnitValues == {None, Str(<<"x">>)}

\* The frames, days and start rows fill_daily_sheet is called with.
UnitFrames == {EmptyFrame, PlainFile.frame, ParseDates(MixedFile.frame),
               Concat(ParseDates(DatedFile.frame), PlainFile.frame)}

UnitDays == {1, 2}

UnitStartRows == {HEADER_ROW - 1, DATA_START_ROW, DATA_START_ROW + 1}

\* The (frame, day) pairs: the day matters to a frame with a Date column only.
UnitFillArgs == {a \in UnitFrames \X UnitDays : a[1].has_date \/ a[2] = 1}

UnitInit ==
    /\ prog = "automate_excel"
    /\ today = 0
    /\ pc = "unit"
    /\ err = ""
    /\ start_date = NoDate
    /\ end_date = NoDate
    /\ file_paths = <<>>
    /\ rate = 0
    /\ wb = <<>>
    /\ combined_df = EmptyFrame
    /\ daily_info = <<>>
    /\ date_list = <<>>
    /\ date_label = None
    /\ fallback_on = FALSE
    /\ di = 0
    /\ last_row = 0
    /\ out_file = NoFile
    /\ date_input = <<NoText, NoText>>
    /\ template_file = [exists |-> FALSE, wb |-> <<>>]
    /\ \E s \in UnitSheets : unit = [NoCall EXCEPT !.op = "load", !.ws = s, !.prev = s]

UnitFrame == UNCHANGED <<prog, today, pc, err, start_date, end_date, file_paths,
                         rate, wb, combined_df, daily_info, date_list, date_label,
                         fallback_on, di, last_row, out_file, date_input, template_file>>

\* safe_set_cell(ws, address, v)
UnitSetCell ==
    /\ unit.calls < MaxCalls
    /\ \E r \in UnitRows, c \in UnitCols, v \in UnitValues :
        unit' = [NoCall EXCEPT !.op = "set", !.ws = safe_set_cell(unit.ws, r, c, v),
                               !.prev = unit.ws, !.r = r, !.c = c, !.v = v,
                               !.calls = unit.calls + 1]
    /\ UnitFrame

\* clear_sheet_data(ws, start_row=7) of either entry point
UnitClear ==
    /\ unit.calls < MaxCalls
    /\ \E p \in {"automate_excel", "work_log"} :
        LET res == IF p = "work_log" THEN clear_sheet_data_WL(unit.ws, DATA_START_ROW)
                   ELSE clear_sheet_data_AE(unit.ws, DATA_START_ROW)
        IN  unit' = [NoCall EXCEPT !.op = "clear", !.prog = p, !.ws = res.ws,
                                   !.prev = unit.ws, !.ok = res.ok,
                                   !.start_row = DATA_START_ROW,
                                   !.calls = unit.calls + 1]
    /\ UnitFrame

\* apply_consistent_layout(ws, date_label)
UnitLayout ==
    /\ unit.calls < MaxCalls
    /\ unit' = [NoCall EXCEPT !.op = "layout", !.prog = "work_log",
                              !.ws = apply_consistent_layout(unit.ws, NameStr(Strftime(1)),
                                                             NameStr(Strftime(today))),
                              !.prev = unit.ws, !.calls = unit.calls + 1]
    /\ UnitFrame

\* fill_daily_sheet(ws, day, df, start_row) of either entry point
UnitFill ==
    /\ unit.calls < MaxCalls
    /\ \E p \in {"automate_excel", "work_log"}, a \in UnitFillArgs,
          start_row \in UnitStartRows :
        LET df  == a[1]
            day == a[2]
            res == IF p = "work_log"
                   THEN fill_daily_sheet_WL(unit.ws, day, df, start_row)
                   ELSE fill_daily_sheet_AE(unit.ws, day, df, start_row, NoDate, today)
        IN  unit' = [NoCall EXCEPT !.op = "fill", !.prog = p, !.ws = res.ws,
                                   !.prev = unit.ws, !.df = df, !.day = day,
                                   !.start_row = start_row, !.ok = res.ok,
                                   !.ret = res.last_row, !.calls = unit.calls + 1]
    /\ UnitFrame

UnitNext == UnitSetCell \/ UnitClear \/ UnitLayout \/ UnitFill

SpecUnit == UnitInit /\ [][UnitNext]_vars

\* ================================================================ claims

\* ---------------------------------------------------------------- C1
\* The day's records of a fill_daily_sheet call, by entry point.
RecordsOf(p, df, day) == IF p = "work_log" THEN RecordsWL(df, day) ELSE RecordsAE(df, day)

\* C1: a fill_daily_sheet call that writes N records from start row R puts
\* record i (in input order) into row R + i - 1, one record per row, and
\* returns R + N - 1 when N > 0 and R - 1 when N = 0, in both entry points.
C1_FillReturnsLastRow ==
    (unit.op = "fill" /\ unit.ok) =>
        LET recs == RecordsOf(unit.prog, unit.df, unit.day)
            N    == Len(recs)
            R    == unit.start_row
        IN  /\ (N > 0 => unit.ret = R + N - 1)
            /\ (N = 0 => unit.ret = R - 1)
            /\ \A i \in 1 .. N, c \in 1 .. NUM_COLS :
                   ValueOf(unit.ws, R + i - 1, c) = FieldOf(recs[i], c)

\* C1 witness: a call that wrote two records from a start row other than 7.
C1_Witness ==
    /\ unit.op = "fill" /\ unit.ok
    /\ unit.start_row = DATA_START_ROW + 1
    /\ Len(RecordsOf(unit.prog, unit.df, unit.day)) = 2
    /\ unit.ret = unit.start_row + 1
    /\ ValueOf(unit.ws, unit.ret, 1) = Num(2)

\* ---------------------------------------------------------------- C5
\* The cell a write to (r, c) must land in: the anchor of the merged range
\* holding the address, the address itself outside every range.
C5_Anchor(ws, r, c) ==
    IF \E rg \in ws.merged : InRange(rg, r, c)
    THEN LET rg == CHOOSE g \in ws.merged : InRange(g, r, c) IN <<rg[1], rg[2]>>
    ELSE <<r, c>>

\* C5: safe_set_cell(sheet, address, v) assigns v to exactly one cell, the
\* address itself or, for a non-anchor member of a merged range, the range's
\* top-left anchor; every other cell keeps its value, no non-anchor member
\* holds a value, and a second identical call changes nothing.
C5_SafeSetCellOneCell ==
    /\ \A rg \in unit.ws.merged :
           \A p \in ((rg[1] .. rg[3]) \X (rg[2] .. rg[4])) \ {<<rg[1], rg[2]>>} :
               ValueOf(unit.ws, p[1], p[2]) = None
    /\ unit.op = "set" =>
        LET tgt == C5_Anchor(unit.prev, unit.r, unit.c)
        IN  /\ ValueOf(unit.ws, tgt[1], tgt[2]) = unit.v
            /\ \A p \in ((DOMAIN unit.prev.cells) \cup (DOMAIN unit.ws.cells)) \ {tgt} :
                   ValueOf(unit.ws, p[1], p[2]) = ValueOf(unit.prev, p[1], p[2])
            /\ unit.ws.merged = unit.prev.merged
            /\ safe_set_cell(unit.ws, unit.r, unit.c, unit.v) = unit.ws

\* C5 witness: a write addressed to a non-anchor member of a merged range
\* that changed the value of the range's anchor.
C5_Witness ==
    /\ unit.op = "set"
    /\ IsMergedCell(unit.prev, unit.r, unit.c)
    /\ LET tgt == C5_Anchor(unit.prev, unit.r, unit.c)
       IN  /\ ValueOf(unit.prev, tgt[1], tgt[2]) # unit.v
           /\ ValueOf(unit.ws, tgt[1], tgt[2]) = unit.v
           /\ unit.v # None

\* ------------------------------------------------- observing a workbook
\* The daily sheets of a workbook, in workbook order.
DailyIndexes(w) == {i \in DOMAIN w : w[i].title.k = "day"}

\* The sheet with a given MM-DD-YYYY name.
DailySheet(w, name) == w[CHOOSE i \in DOMAIN w : w[i].title = DayTitle(name)]

TotalSheet(w) == w[IndexOf(w, TotalTitle)]

\* The rows from `lo` on that hold a value in some cell.
UsedRows(ws, lo) ==
    {p[1] : p \in {q \in DOMAIN ws.cells : q[1] >= lo /\ ws.cells[q].v # None}}

\* The Total sheet has been rebuilt.
TotalBuilt == pc \in {"hide", "save", "done"}

\* The names of the sheets whose recorded range is not degenerate.
FilledNames == {n \in DOMAIN daily_info : daily_info[n][2] >= daily_info[n][1]}

LoadedFrom ==
    {f \in TemplateFiles :
        /\ f.exists /\ Len(f.wb) <= Len(wb)
        /\ \A i \in DOMAIN f.wb : wb[i].title = f.wb[i].title
        /\ TemplateTitle \in SheetNames(f.wb)
        /\ wb[IndexOf(wb, TemplateTitle)].cells = f.wb[IndexOf(f.wb, TemplateTitle)].cells}

Scenario1Done ==
    /\ pc = "done"
    /\ start_date = NoDate /\ end_date = NoDate
    /\ file_paths = <<>>
    /\ rate = 25

\* Scenario 1 made exactly one daily sheet, named with today's date, holding
\* no data row.
Scenario1Sheet ==
    /\ Cardinality(DailyIndexes(wb)) = 1
    /\ \A i \in DailyIndexes(wb) :
           /\ wb[i].title = DayTitle(Strftime(today))
           /\ UsedRows(wb[i], DATA_START_ROW) = {}

TemplateSheet == wb[IndexOf(wb, TemplateTitle)]

\* The style a Complete cell in `row` has when no colour override applies:
\* work_log propagates the template's row-7 style of the column (when that
\* cell has a style), automate_excel leaves the cloned cell's style alone.
PropagatedStyle(row) ==
    IF prog = "work_log" /\ HasStyle(StyleOf(TemplateSheet, TEMPLATE_STYLE_ROW, COMPLETE_COL))
    THEN StyleOf(TemplateSheet, TEMPLATE_STYLE_ROW, COMPLETE_COL)
    ELSE StyleOf(TemplateSheet, row, COMPLETE_COL)

\* C4: for every record fill_daily_sheet has written, the Complete cell has
\* a green font when the flag is "yes" in any casing, a red font when it is
\* "no" in any casing, and the propagated default style, with no colour
\* override, for every other value or blank, whatever the flags of the
\* records written before it.
C4_CompleteColour ==
    pc = "record" =>
        LET recs == RecordsOf(prog, combined_df, Day)
        IN  \A i \in 1 .. Len(recs) :
                LET row  == DATA_START_ROW + i - 1
                    flag == recs[i].Complete
                    st   == StyleOf(NewSheet, row, COMPLETE_COL)
                IN  IF IsStr(flag) /\ Lower(flag.s) = YES THEN st.font = GREEN
                    ELSE IF IsStr(flag) /\ Lower(flag.s) = NO THEN st.font = RED
                    ELSE st = PropagatedStyle(row)


\* ---------------------------------------------------------------- C6
\* The Date entry of a record names the day: a calendar date equal to it, or
\* a text that reads as that date.
MeansDay(e, day) ==
    \/ e.k = "date" /\ e.o = day
    \/ e.k = "raw" /\ Parseable(e.name) /\ Strptime(e.name) = day

\* The day's subset as the contract states it.
DaySubset(df, day) ==
    LET Keep(r) == MeansDay(r.Date, day)
    IN  IF df.rows = <<>> THEN <<>>
        ELSE IF df.has_date THEN SelectSeq(df.rows, Keep)
        ELSE df.rows

\* C6: the records fill_daily_sheet selects for a day, seen as the rows it
\* has written from row 7 on, are exactly the records whose Date equals the
\* day when the record set has a Date field, the whole record set when it
\* has none, and no record when the record set is empty.
C6_DaySelection ==
    pc = "record" =>
        LET subset == DaySubset(combined_df, Day)
        IN  /\ last_row = DATA_START_ROW + Len(subset) - 1
            /\ \A i \in 1 .. Len(subset) : \A c \in 1 .. NUM_COLS :
                   ValueOf(NewSheet, DATA_START_ROW + i - 1, c) = FieldOf(subset[i], c)


NumberIn(v) == IF v.t = "num" THEN v.a[1] ELSE 0

RECURSIVE SumMinutes(_, _, _)
\* SUM(C first:C last) * 60 + SUM(D first:D last) of a sheet, in minutes
SumMinutes(ws, first, last) ==
    IF last < first THEN 0
    ELSE 60 * NumberIn(ValueOf(ws, last, 3)) + NumberIn(ValueOf(ws, last, 4))
         + SumMinutes(ws, first, last - 1)

\* What an hours formula of the Total sheet evaluates to, in minutes.
EvalMinutes(w, f) == SumMinutes(DailySheet(w, SubSeq(f.a, 1, 3)), f.a[4], f.a[5])

\* Scenario 2 has run to its end: the range 01-01-2024..01-03-2024, and a
\* record set with a Date field whose only record dated inside the range is
\* one of 01-02-2024 with Hr = 2, Min = 30, Complete = "Yes".
Scenario2Done ==
    /\ pc = "done"
    /\ start_date = 1 /\ Strftime(start_date) = <<1, 1, 2024>>
    /\ end_date = 3 /\ Strftime(end_date) = <<1, 3, 2024>>
    /\ LET df == ConcatAll(file_paths)
           InRangeRows == {i \in DOMAIN df.rows :
                              \E d \in start_date .. end_date : MeansDay(df.rows[i].Date, d)}
       IN  /\ df.has_date
           /\ Cardinality(InRangeRows) = 1
           /\ \A i \in InRangeRows :
                  /\ MeansDay(df.rows[i].Date, 2)
                  /\ df.rows[i].Hr = Num(2) /\ df.rows[i].Min = Num(30)
                  /\ df.rows[i].Complete = Str(<<"Y", "e", "s">>)

\* C9: in scenario 2 three daily sheets are generated; sheet 01-02-2024 has
\* exactly one data row, at row 7, holding the record, with a green Complete
\* cell; the other two sheets have no data rows; the Total sheet has one
\* summary row, for 01-02-2024, whose hours formula sums rows 7..7 and
\* evaluates to 150 minutes (2.5 hours).
C9_Scenario2 ==
    Scenario2Done =>
        LET ts == TotalSheet(wb)
            d2 == <<1, 2, 2024>>
        IN  /\ {wb[i].title : i \in DailyIndexes(wb)}
                   = {DayTitle(<<1, 1, 2024>>), DayTitle(d2), DayTitle(<<1, 3, 2024>>)}
            /\ Cardinality(DailyIndexes(wb)) = 3
            /\ UsedRows(DailySheet(wb, d2), DATA_START_ROW) = {DATA_START_ROW}
            /\ ValueOf(DailySheet(wb, d2), DATA_START_ROW, 3) = Num(2)
            /\ ValueOf(DailySheet(wb, d2), DATA_START_ROW, 4) = Num(30)
            /\ StyleOf(DailySheet(wb, d2), DATA_START_ROW, COMPLETE_COL).font = GREEN
            /\ UsedRows(DailySheet(wb, <<1, 1, 2024>>), DATA_START_ROW) = {}
            /\ UsedRows(DailySheet(wb, <<1, 3, 2024>>), DATA_START_ROW) = {}
            /\ UsedRows(ts, TOTAL_FIRST_ROW) = {TOTAL_FIRST_ROW}
            /\ ValueOf(ts, TOTAL_FIRST_ROW, TOTAL_DATE_COL) = NameStr(d2)
            /\ ValueOf(ts, TOTAL_FIRST_ROW, TOTAL_DATE_COL + 1).t = "hours"
            /\ ValueOf(ts, TOTAL_FIRST_ROW, TOTAL_DATE_COL + 1).a
                   = d2 \o <<DATA_START_ROW, DATA_START_ROW>>
            /\ EvalMinutes(wb, ValueOf(ts, TOTAL_FIRST_ROW, TOTAL_DATE_COL + 1)) = 150

\* C9 witness: scenario 2 has run to its end in work_log, with undated
\* records of a second file in the record set, and the workbook is saved.
C9_Witness ==
    /\ Scenario2Done
    /\ prog = "work_log"
    /\ Len(file_paths) = 2
    /\ out_file.exists
    /\ Cardinality(DailyIndexes(out_file.wb)) = 3


\* --------------------------------------------------------------- C10
\* The first and the last day a run makes a sheet for: the range entered,
\* the start date alone, or today.
FirstDay == IF start_date = NoDate THEN today ELSE start_date

LastDay == IF end_date = NoDate THEN FirstDay ELSE end_date

TotalOf(w) == IF TotalTitle \in SheetNames(w) THEN <<TotalSheet(w)>> ELSE <<>>

\* The template sheet of the current workbook is hidden.
TemplateHidden == TemplateTitle \in SheetNames(wb) /\ TemplateSheet.hidden

\* C11: the Total sheet is rebuilt in one step only, taken once and after
\* every day of the run has its daily sheet cloned, populated and recorded;
\* no sheet is cloned and the Total sheet is not touched again after it; the
\* template sheet becomes hidden after the rebuild and before the save, and
\* it is still present, hidden, in the workbook that is saved.
C11_TotalOnceThenHideThenSave ==
    [][ /\ (pc # "load" /\ TotalOf(wb') # TotalOf(wb)) =>
               /\ pc = "total" /\ pc' = "hide"
               /\ di = Len(date_list) + 1
               /\ Cardinality(DailyIndexes(wb)) = Len(date_list)
               /\ DOMAIN daily_info = {Strftime(date_list[i]) : i \in DOMAIN date_list}
        /\ pc' = "hide" => pc = "total"
        /\ pc \in {"hide", "save", "done"} =>
               /\ pc' \in {"save", "done", "aborted"}
               /\ TotalOf(wb') = TotalOf(wb)
               /\ DailyIndexes(wb') = DailyIndexes(wb)
        /\ (pc \notin {"load", "hide"} /\ TemplateTitle \in SheetNames(wb)) =>
               wb'[IndexOf(wb', TemplateTitle)].hidden = TemplateSheet.hidden
        /\ pc = "hide" => (pc' = "save" /\ TemplateHidden')
        /\ pc' = "done" =>
               /\ pc = "save"
               /\ out_file'.exists /\ out_file'.wb = wb
               /\ TemplateHidden
               /\ TotalOf(wb) # <<>>
      ]_vars

\* C11 witness: a three-day run has come to its end; the saved workbook has
\* the three daily sheets, a Total sheet with a summary row and the hidden
\* template sheet.
C11_Witness ==
    /\ pc = "done"
    /\ Len(date_list) = 3
    /\ out_file.exists
    /\ Cardinality(DailyIndexes(out_file.wb)) = 3
    /\ UsedRows(TotalSheet(out_file.wb), TOTAL_FIRST_ROW) # {}
    /\ out_file.wb[IndexOf(out_file.wb, TemplateTitle)].hidden

\* --------------------------------------------------------------- C12
\* The fatal conditions a run stops on with exit(1) before its save.
FatalErrors ==
    {"Invalid start date format", "Invalid date format",
     "Start date must not be later than end date", "File not found",
     "Invalid rate", "Template file not found", "No sheet named Template",
     "required header not found"}

\* C12: the workbook is saved at most once, in the last step of the run: an
\* output file appears only in the save step that ends the run, nothing
\* changes after it, and a run that has stopped on a fatal condition (or on
\* any other error) has written no output file.
C12_SaveOnceAndLast ==
    [][ /\ out_file' # out_file =>
               /\ pc = "save" /\ pc' = "done"
               /\ ~out_file.exists
               /\ out_file'.wb = wb /\ wb' = wb
        /\ pc \in {"done", "aborted", "crashed"} => UNCHANGED vars
        /\ pc' \in {"aborted", "crashed"} => ~out_file'.exists
        /\ pc' = "aborted" => err' \in FatalErrors \cup {"Permission error saving"}
        /\ out_file'.exists => pc' = "done"
      ]_vars

\* C12 witness: a run has stopped on an input file without the required
\* header, after the template workbook was loaded, and there is no output.
C12_Witness ==
    /\ pc = "aborted"
    /\ err = "required header not found"
    /\ wb # <<>>
    /\ ~out_file.exists

\* --------------------------------------------------------------- C13
\* The input format errors: a file without the header line, a text that is
\* no date, a text that is no rate.
FormatErrors ==
    {"required header not found", "Invalid start date format", "Invalid date format",
     "Invalid rate"}

\* The workbook is as load_workbook returned it, or not loaded at all.
WorkbookUntouched == wb = <<>> \/ \E f \in TemplateFiles : f.exists /\ wb = f.wb

\* C13: a run given an input file without a line holding the seven header
\* names never gets past combine_csv_data; and a run that has stopped on
\* such a file, on an unparseable date or on an unparseable rate has cloned
\* no daily sheet, has changed nothing in the loaded workbook and has
\* written no output file.
C13_FormatErrorAbortsEarly ==
    /\ (\E i \in DOMAIN file_paths : ~Disk(file_paths[i]).header) =>
           pc \in {"prompt_rate", "load", "combine", "aborted"}
    /\ (pc = "aborted" /\ err \in FormatErrors) =>
           /\ WorkbookUntouched
           /\ DailyIndexes(wb) = {}
           /\ daily_info = <<>>
           /\ ~out_file.exists

\* C13 witness: scenario 3, the run has stopped on a headerless file listed
\* after a well-formed one, with the template workbook loaded and untouched.
C13_Witness ==
    /\ pc = "aborted"
    /\ err = "required header not found"
    /\ Len(file_paths) = 2
    /\ Disk(file_paths[1]).header /\ ~Disk(file_paths[2]).header
    /\ wb # <<>> /\ WorkbookUntouched

\* --------------------------------------------------------------- C14
\* Both answers to the date prompt are dates.
BothDatesGiven == Parseable(date_input[1]) /\ Parseable(date_input[2])

\* C14: once the date prompt has been answered with two dates, a start later
\* than the end has stopped the run there with the input error, before the
\* file and rate prompts, with no workbook loaded, no sheet made and no
\* output; and a start not later than the end has been accepted as the
\* run's range, never rejected.
C14_StartAfterEndRejected ==
    (pc # "prompt_dates" /\ BothDatesGiven) =>
        IF Strptime(date_input[1]) > Strptime(date_input[2])
        THEN /\ pc = "aborted"
             /\ err = "Start date must not be later than end date"
             /\ start_date = NoDate /\ end_date = NoDate
             /\ file_paths = <<>> /\ rate = 0
             /\ wb = <<>> /\ daily_info = <<>>
             /\ ~out_file.exists
        ELSE /\ start_date = Strptime(date_input[1])
             /\ end_date = Strptime(date_input[2])
             /\ err \notin {"Start date must not be later than end date",
                            "Invalid date format", "Invalid start date format"}

\* C14 witness: scenario 4, the prompt was answered with 01-02-2024 and
\* 01-01-2024 and the run has stopped.
C14_Witness ==
    /\ date_input = << <<1, 2, 2024>>, <<1, 1, 2024>> >>
    /\ pc = "aborted"
    /\ err = "Start date must not be later than end date"

\* --------------------------------------------------------------- C15
\* C15: the step that clones the template into a sheet named with the day's
\* MM-DD-YYYY string fails, leaving the workbook as it was, when the
\* workbook already has a sheet of that name; otherwise the new sheet has
\* exactly the name that will be recorded in the range map.
C15_DuplicateNameFails ==
    [][pc = "clone" =>
          IF DayTitle(Strftime(Day)) \in SheetNames(wb)
          THEN pc' = "crashed" /\ wb' = wb
          ELSE wb'[Len(wb')].title = DayTitle(Strftime(Day))]_vars

\* --------------------------------------------------------------- C16
\* The daily sheets whose fill_daily_sheet call has returned.
PopulatedIndexes ==
    IF pc \in {"layout", "clear", "fill"} THEN DailyIndexes(wb) \ {Len(wb)}
    ELSE DailyIndexes(wb)

\* C16: no step of a run changes a cell value, a cell style or the pane
\* setting of a daily sheet whose fill_daily_sheet call has returned.
C16_DailySheetFrozenAfterFill ==
    [][\A i \in PopulatedIndexes :
           /\ wb'[i].cells = wb[i].cells
           /\ wb'[i].freeze = wb[i].freeze]_vars

\* C16 as amended: after its fill_daily_sheet call has returned, a daily
\* sheet changes in one way only: work_log, in the step that records the
\* sheet's range, writes the day's total into cell C4 (the hours formula
\* over rows 7..lastRow, or 0 for a sheet without data rows), keeping the
\* cell's style.  No other cell value, no style, no merged range and no pane
\* setting changes, and automate_excel changes nothing at all.
C16_OnlyDayTotalAfterFill ==
    [][\A i \in PopulatedIndexes :
           /\ wb'[i].freeze = wb[i].freeze
           /\ wb'[i].merged = wb[i].merged
           /\ \A p \in (DOMAIN wb[i].cells) \cup (DOMAIN wb'[i].cells) :
                  \/ CellOf(wb'[i], p[1], p[2]) = CellOf(wb[i], p[1], p[2])
                  \/ /\ p = <<4, 3>>
                     /\ prog = "work_log" /\ pc = "record" /\ i = Len(wb)
                     /\ StyleOf(wb'[i], 4, 3) = StyleOf(wb[i], 4, 3)
                     /\ ValueOf(wb'[i], 4, 3).t
                            = IF last_row >= DATA_START_ROW THEN "localhours" ELSE "num"
                     /\ ValueOf(wb'[i], 4, 3).a
                            = IF last_row >= DATA_START_ROW
                              THEN <<DATA_START_ROW, last_row>> ELSE <<0>>]_vars

\* C16 witness: a work_log run has come to its end with a daily sheet that
\* holds two records and, in C4, the total over rows 7..8.
C16_Witness ==
    /\ pc = "done"
    /\ prog = "work_log"
    /\ \E i \in DailyIndexes(wb) :
           /\ UsedRows(wb[i], DATA_START_ROW) = {DATA_START_ROW, DATA_START_ROW + 1}
           /\ ValueOf(wb[i], 4, 3).t = "localhours"
           /\ ValueOf(wb[i], 4, 3).a = <<DATA_START_ROW, DATA_START_ROW + 1>>

\* --------------------------------------------------------------- C17
\* The record set as read from the files, before any parsing or filtering.
Ingested == ConcatAll(file_paths)

\* The rows of the ingested set whose Date is a text that is no date.
BadDateRows ==
    {i \in DOMAIN Ingested.rows :
        Ingested.rows[i].Date.k = "raw" /\ ~Parseable(Ingested.rows[i].Date.name)}

\* The files of the run pass the format check and a record with an
\* unparseable Date is among their records.
BadDateGiven ==
    /\ \A i \in DOMAIN file_paths : Disk(file_paths[i]).header
    /\ BadDateRows # {}

\* Record r is on the daily sheet of day d.
PlacedOn(r, d) ==
    \E row \in UsedRows(DailySheet(wb, Strftime(d)), DATA_START_ROW) :
        \A c \in 1 .. NUM_COLS : ValueOf(DailySheet(wb, Strftime(d)), row, c) = FieldOf(r, c)

\* C17: a record whose Date is present but unparseable never stops the run:
\* the steps that read the files and that parse and filter the dates go on
\* to the next step; right after ingestion the record is in the record set,
\* kept, with a Date that is no date; and when the run ends every record
\* whose Date names a day of the run is on that day's sheet.
C17_BadDateTolerated ==
    [][BadDateGiven =>
          /\ pc = "combine" =>
                 /\ pc' = "plan"
                 /\ Len(combined_df'.rows) = Len(Ingested.rows)
                 /\ \A i \in BadDateRows :
                        /\ combined_df'.rows[i].Number = Ingested.rows[i].Number
                        /\ combined_df'.rows[i].Date.k # "date"
          /\ pc = "plan" => pc' = "clone"
          /\ (pc = "save" /\ pc' = "done") =>
                 \A k \in DOMAIN date_list : \A i \in DOMAIN Ingested.rows :
                     MeansDay(Ingested.rows[i].Date, date_list[k]) =>
                         PlacedOn(Ingested.rows[i], date_list[k])]_vars

\* ---------------------------------------------------------------- C18
\* The style a data cell of column c in `row` is meant to end with when
\* work_log's fill_daily_sheet writes record rec there: the style row 7 of
\* the sheet held in column c before populating began (the cell's own style
\* when that one is empty), with the font of the record's own flag colour.
StyleFromClonedRow(ws, rec, row, c) ==
    LET cloned == copy_cell_style(StyleOf(ws, TEMPLATE_STYLE_ROW, c), StyleOf(ws, row, c))
        colour == IF c = COMPLETE_COL THEN ColourWL(rec.Complete) ELSE ""
    IN  IF colour = "" THEN cloned ELSE WithFont(cloned, colour)

\* C18: in work_log's fill_daily_sheet every data cell written at row r,
\* column c receives the style that row 7 had in column c when the sheet was
\* cloned, whatever records were written to the rows before it (row 7
\* included).
C18_StyleFromClonedRow ==
    [][(prog = "work_log" /\ pc = "fill" /\ pc' = "record") =>
          LET recs == RecordsWL(combined_df, Day)
          IN  \A i \in 1 .. Len(recs) : \A c \in 1 .. NUM_COLS :
                  StyleOf(wb'[Len(wb')], DATA_START_ROW + i - 1, c)
                      = StyleFromClonedRow(NewSheet, recs[i], DATA_START_ROW + i - 1, c)]_vars

\* ---------------------------------------------------------------- C19
\* The entry point the run is not using.
OtherProg == IF prog = "work_log" THEN "automate_excel" ELSE "work_log"

\* The days the other entry point generates sheets for, on the run's inputs.
OtherDates ==
    IF OtherProg = "work_log"
    THEN PlanWL(start_date, end_date, today).dates
    ELSE PlanAE(combine_csv_data_AE(file_paths), start_date, end_date, today).dates

\* The (first row, last row) range the other entry point records for day d,
\* on the run's inputs.
OtherRange(d) ==
    LET records == IF OtherProg = "work_log"
                   THEN RecordsWL(combine_csv_data_WL(file_paths), d)
                   ELSE RecordsAE(PlanAE(combine_csv_data_AE(file_paths),
                                         start_date, end_date, today).df, d)
    IN  <<DATA_START_ROW, DATA_START_ROW + Len(records) - 1>>

\* C19: on the same input the two entry points generate the same daily
\* sheet names and the same (first row, last row) range for each sheet: the
\* days of the run and the range it is about to record for the current day
\* are the ones the other entry point computes.
C19_EntryPointsAgree ==
    pc = "record" =>
        /\ [k \in DOMAIN date_list |-> Strftime(date_list[k])]
               = [k \in DOMAIN OtherDates |-> Strftime(OtherDates[k])]
        /\ <<DATA_START_ROW, last_row>> = OtherRange(Day)

\* ---------------------------------------------------------------- C20
\* The workbook is loaded and the run is under way.
WorkbookLoaded ==
    pc \in {"combine", "plan", "clone", "layout", "clear", "fill", "record",
            "total", "hide", "save"}

\* C20: once the workbook is loaded no step changes the template sheet's
\* cell values, styles or merged regions, so every clone starts from the
\* content the template had when it was loaded; the template sheet stays in
\* the workbook, and its visibility changes only in the step that hides it,
\* the one between the rebuild of the Total sheet and the save.
C20_TemplateSheetFrame ==
    [][WorkbookLoaded =>
          /\ TemplateTitle \in SheetNames(wb')
          /\ TemplateSheet'.cells = TemplateSheet.cells
          /\ TemplateSheet'.merged = TemplateSheet.merged
          /\ (TemplateSheet'.hidden # TemplateSheet.hidden) =>
                 (pc = "hide" /\ TemplateSheet'.hidden)
          /\ pc = "clone" =>
                 /\ wb'[Len(wb')].cells = TemplateSheet.cells
                 /\ wb'[Len(wb')].merged = TemplateSheet.merged
                 /\ TemplateSheet.cells = template_file.wb[IndexOf(template_file.wb, TemplateTitle)].cells]_vars

\* A three-day run has ended: three sheets were cloned and populated, the
\* Total sheet has a summary row, and the template sheet, hidden, still has
\* the content of the template file.
C20_Witness ==
    /\ pc = "done"
    /\ Len(date_list) = 3
    /\ \E k \in DOMAIN date_list :
           UsedRows(DailySheet(wb, Strftime(date_list[k])), DATA_START_ROW) # {}
    /\ TemplateHidden
    /\ TemplateSheet.cells = template_file.wb[IndexOf(template_file.wb, TemplateTitle)].cells
    /\ \E p \in DOMAIN TemplateSheet.cells : p[1] = TEMPLATE_STYLE_ROW

====
